---------------------------- MODULE Spec2Model ----------------------------
(***************************************************************************)
(* Authentication / authorization pipeline of the sequelize_auth lesson:   *)
(* the middleware (hashPassword, comparePassword, createToken,             *)
(* verifyToken, stripToken), the AuthController handlers (Register,        *)
(* Login) and the protected POST /posts route.                             *)
(*                                                                         *)
(* Conventions.                                                            *)
(*  - A JavaScript value that may be undefined / null is a set holding at  *)
(*    most one element: {} is undefined, {v} is v.                         *)
(*  - A JavaScript string that the code parses (the Authorization header)  *)
(*    is a sequence of items: a blank, a run of ordinary characters, or    *)
(*    the compact serialisation of a JWT.                                  *)
(*  - bcrypt and jsonwebtoken are libraries; their results are symbolic    *)
(*    terms (a digest names the data, salt and cost it was computed from,  *)
(*    a signature names the key and the signed payload), so that equality  *)
(*    of terms is equality of the bytes the libraries would produce.       *)
(*  - An async handler runs atomically from one await to the next; the     *)
(*    awaited operation takes effect at the start of the segment that      *)
(*    resumes from it.  The code between awaits touches only the request.  *)
(***************************************************************************)
EXTENDS Integers, Sequences, FiniteSets, Bags, TLC

VARIABLES
    users,      \* rows of the users table
    nextId,     \* next value of the table's id sequence
    inflight,   \* bag of the requests the server currently holds
    issued,     \* token strings that Login responses have handed to clients
    removed     \* number of rows removed from the users table

vars == <<users, nextId, inflight, issued, removed>>

(***************************** bounds ***************************************)

\* Requests held by the server at the same time.
MaxInFlight == 2

\* Requests held at the same time when rows of the users table are removed.
MaxInFlightRemoval == 1

\* Rows removed from the users table.
MaxRemovals == 1

(***************************** configuration ********************************)

SALT_ROUNDS == 12

APP_SECRET == "supersecretkey"

\* A key that is not the application's.
OtherSecret == "not-the-app-secret"

(***************************** input domains ********************************)

Emails == {"john@mail.com", "jane@mail.com"}

Passwords == {"1234", "abcd"}

Names == {"John Doe"}

\* The salts bcrypt.hash may draw.
Salts == {"saltA"}

\* req.body.password: a string, or absent.
PasswordInputs == {{p} : p \in Passwords} \cup {{}}

(***************************** strings **************************************)

Sp == [ch |-> "space"]

Word(s) == [ch |-> "text", s |-> s]

Jwt(t) == [ch |-> "jwt", t |-> t]

\* String.prototype.split(sep): the pieces between the separators.
RECURSIVE split(_, _)
split(s, sep) ==
    IF \A i \in 1..Len(s) : s[i] # sep
    THEN <<s>>
    ELSE LET k == CHOOSE i \in 1..Len(s) :
                      s[i] = sep /\ \A j \in 1..(i - 1) : s[j] # sep
         IN  <<SubSeq(s, 1, k - 1)>> \o split(SubSeq(s, k + 1, Len(s)), sep)

\* JavaScript truthiness of a possibly undefined string.
TruthyString(opt) == \E s \in opt : Len(s) > 0

(***************************** bcrypt ***************************************)

Crypt(data, salt, rounds) == [data |-> data, salt |-> salt, rounds |-> rounds]

bcryptHash(data, rounds, salt) ==
    [alg |-> "2b", rounds |-> rounds, salt |-> salt,
     hash |-> Crypt(data, salt, rounds)]

bcryptCompare(data, digest) ==
    digest.hash = Crypt(data, digest.salt, digest.rounds)

hashPassword_constant(password, salt) == bcryptHash("", SALT_ROUNDS, salt)

hashPassword(password, salt) == bcryptHash(password, SALT_ROUNDS, salt)

comparePassword_always(storedPassword, password) == TRUE

comparePassword(storedPassword, password) ==
    bcryptCompare(password, storedPassword)

(***************************** jsonwebtoken *********************************)

\* The value a failed truthiness test (if (payload)) stands for.
Falsy == [js |-> "falsy"]

Truthy(v) == v # Falsy

Hmac(payload, key) == [key |-> key, over |-> payload]

\* jwt.sign(payload, secret): no expiresIn option, so no exp claim.
jwtSign(payload, secret) ==
    <<Jwt([payload |-> payload, sig |-> Hmac(payload, secret)])>>

\* jwt.verify(token, secret): the decoded payload, or an exception.
jwtVerify(token, secret) ==
    IF /\ token # {}
       /\ \E s \in token :
            /\ Len(s) = 1
            /\ s[1].ch = "jwt"
            /\ s[1].t.sig = Hmac(s[1].t.payload, secret)
    THEN [threw |-> FALSE, payload |-> {s[1].t.payload : s \in token}]
    ELSE [threw |-> TRUE, payload |-> {}]

createToken_otherKey(payload) == jwtSign(payload, OtherSecret)

createToken(payload) == jwtSign(payload, APP_SECRET)

(***************************** requests *************************************)

\* The 401 response every rejection sends.
Unauthorized ==
    [status |-> 401, body |-> [status |-> "Error", msg |-> "Unauthorized"]]

Ok(body) == [status |-> 200, body |-> body]

\* A request as the router hands it to the first function of its route.
NewReq(kind, pc, email, password, name, header) ==
    [kind |-> kind, pc |-> pc,
     email |-> email, password |-> password, name |-> name, \* req.body
     header |-> header,              \* req.headers['authorization']
     token |-> {},                   \* res.locals.token
     user |-> {},                    \* Login's const user
     digest |-> {},                  \* Register's let passwordDigest
     res |-> {},                     \* the response sent, if any
     err |-> {},                     \* the error the handler rethrew, if any
     log |-> <<>>]                   \* what each middleware invocation did

\* A request no function of the server will touch any more.
Terminal == {"responded", "threw", "handler", "stalled"}

Ran(mw, next, sent) == [mw |-> mw, next |-> next, sent |-> sent]

Replace(r, q) == (inflight (-) SetToBag({r})) (+) SetToBag({q})

Bearer(token) == <<Word("Bearer"), Sp>> \o token

(***************************** middleware ***********************************)

stripToken_catch403(r) ==
    IF r.header = {}
    THEN [r EXCEPT !.res = {[Unauthorized EXCEPT !.status = 403]},
                   !.pc = "responded",
                   !.log = Append(@, Ran("stripToken", FALSE, TRUE))]
    ELSE LET parts == split(CHOOSE h \in r.header : TRUE, Sp)
             token == IF Len(parts) >= 2 THEN {parts[2]} ELSE {}
         IN  IF TruthyString(token)
             THEN [r EXCEPT !.token = token, !.pc = "verifyToken",
                            !.log = Append(@, Ran("stripToken", TRUE, FALSE))]
             ELSE [r EXCEPT !.pc = "stalled",
                            !.log = Append(@, Ran("stripToken", FALSE, FALSE))]

\* The request after stripToken(req, res, next) has returned.
stripToken(r) ==
    IF r.header = {}
    THEN \* undefined.split throws a TypeError, which the catch answers
         [r EXCEPT !.res = {Unauthorized}, !.pc = "responded",
                   !.log = Append(@, Ran("stripToken", FALSE, TRUE))]
    ELSE LET parts == split(CHOOSE h \in r.header : TRUE, Sp)
             token == IF Len(parts) >= 2 THEN {parts[2]} ELSE {}
         IN  IF TruthyString(token)
             THEN [r EXCEPT !.token = token, !.pc = "verifyToken",
                            !.log = Append(@, Ran("stripToken", TRUE, FALSE))]
             ELSE \* if (token) fails and the try block ends: nothing is
                  \* sent and next is not called
                  [r EXCEPT !.pc = "stalled",
                            !.log = Append(@, Ran("stripToken", FALSE, FALSE))]

verifyToken_noVerify(r) ==
    [r EXCEPT !.pc = "handler",
              !.log = Append(@, Ran("verifyToken", TRUE, FALSE))]

verifyToken_catch403(r) ==
    LET v == jwtVerify(r.token, APP_SECRET)
    IN  IF v.threw
        THEN [r EXCEPT !.res = {[Unauthorized EXCEPT !.status = 403]},
                       !.pc = "responded",
                       !.log = Append(@, Ran("verifyToken", FALSE, TRUE))]
        ELSE IF \E p \in v.payload : Truthy(p)
        THEN [r EXCEPT !.pc = "handler",
                       !.log = Append(@, Ran("verifyToken", TRUE, FALSE))]
        ELSE [r EXCEPT !.res = {Unauthorized}, !.pc = "responded",
                       !.log = Append(@, Ran("verifyToken", FALSE, TRUE))]

\* The request after verifyToken(req, res, next) has returned.
verifyToken(r) ==
    LET v == jwtVerify(r.token, APP_SECRET)
    IN  IF v.threw
        THEN [r EXCEPT !.res = {Unauthorized}, !.pc = "responded",
                       !.log = Append(@, Ran("verifyToken", FALSE, TRUE))]
        ELSE IF \E p \in v.payload : Truthy(p)
        THEN [r EXCEPT !.pc = "handler",
                       !.log = Append(@, Ran("verifyToken", TRUE, FALSE))]
        ELSE [r EXCEPT !.res = {Unauthorized}, !.pc = "responded",
                       !.log = Append(@, Ran("verifyToken", FALSE, TRUE))]

(***************************** storage **************************************)

UserCreate_noUnique(table, id, fields) ==
    LET row == [id |-> id, email |-> fields.email, name |-> fields.name,
                passwordDigest |-> fields.passwordDigest]
    IN  [rejected |-> FALSE, table |-> table \cup {row}, row |-> {row}]

\* User.create(fields): the insert the unique index on email rejects for an
\* email the table already holds; otherwise the new row, with the next id.
UserCreate(table, id, fields) ==
    IF \E u \in table : u.email = fields.email
    THEN [rejected |-> TRUE, table |-> table, row |-> {}]
    ELSE LET row == [id |-> id, email |-> fields.email, name |-> fields.name,
                     passwordDigest |-> fields.passwordDigest]
         IN  [rejected |-> FALSE, table |-> table \cup {row}, row |-> {row}]

\* User.findOne({ where: { email }, raw: true }): the row, or null.
UserFindOne(table, email) == {u \in table : u.email \in email}

(***************************** AuthController *******************************)

LoginPayload_wholeRow(user) == user

\* Login's payload for the token.
LoginPayload(user) == [id |-> user.id, email |-> user.email]

\* Register, from its entry to the await on User.create.
RegisterHash(r, salt) ==
    IF r.password = {}
    THEN \* bcrypt.hash(undefined, ...) rejects; catch (error) { throw error }
         [r EXCEPT !.pc = "threw", !.err = {"bcrypt: data and salt arguments required"}]
    ELSE [r EXCEPT !.pc = "create",
                   !.digest = {hashPassword(p, salt) : p \in r.password}]

\* The fields Register passes to User.create.
RegisterFields(r) ==
    [email |-> CHOOSE e \in r.email : TRUE,
     passwordDigest |-> CHOOSE d \in r.digest : TRUE,
     name |-> CHOOSE n \in r.name : TRUE]

\* Register, from User.create to its end.
RegisterCreate(r, created) ==
    IF created.rejected
    THEN \* the rejection is rethrown by catch (error) { throw error }
         [r EXCEPT !.pc = "threw", !.err = {"SequelizeUniqueConstraintError"},
                   !.digest = {}]
    ELSE [r EXCEPT !.pc = "responded", !.res = {Ok(row) : row \in created.row},
                   !.digest = {}]

\* Login, from its entry to the await on User.findOne.
LoginFind(r, table) ==
    [r EXCEPT !.pc = "compare", !.user = UserFindOne(table, r.email)]

\* Login, from the test of user to its end.
LoginRespond(r) ==
    IF r.user = {}
    THEN [r EXCEPT !.pc = "responded", !.res = {Unauthorized}]
    ELSE IF r.password = {}
    THEN \* bcrypt.compare(undefined, ...) rejects; catch (error) { throw error }
         [r EXCEPT !.pc = "threw", !.err = {"bcrypt: data and hash arguments required"}]
    ELSE LET user == CHOOSE u \in r.user : TRUE
             password == CHOOSE p \in r.password : TRUE
         IN  IF comparePassword(user.passwordDigest, password)
             THEN LET payload == LoginPayload(user)
                      token == createToken(payload)
                  IN  [r EXCEPT !.pc = "responded",
                                !.res = {Ok([user |-> payload, token |-> token])}]
             ELSE [r EXCEPT !.pc = "responded", !.res = {Unauthorized}]

\* The tokens a set of responses carries.
TokensOf(res) == {x.body.token : x \in {y \in res : "token" \in DOMAIN y.body}}

(***************************** clients **************************************)

\* A token whose payload was altered after it was signed.
Tamper(token) ==
    <<Jwt([payload |-> [token[1].t.payload EXCEPT !.id = @ + 1],
           sig |-> token[1].t.sig])>>

\* What a client may put after "Bearer ": a token a Login returned, one it
\* altered, one signed with another key, one whose payload fails if (payload).
TokenInputs ==
    issued \cup {Tamper(t) : t \in issued}
           \cup {jwtSign([id |-> 1, email |-> "john@mail.com"], OtherSecret),
                 jwtSign(Falsy, APP_SECRET)}

\* The Authorization header of a request: absent, or a string.
HeaderInputs ==
    {{}} \cup {{h} : h \in {<<>>, <<Word("abc123")>>, <<Word("Bearer"), Sp>>,
                            Bearer(<<Word("abc123")>>)}
                           \cup {Bearer(t) : t \in TokenInputs}}

(***************************** actions **************************************)

Init ==
    /\ users = {}
    /\ nextId = 1
    /\ inflight = EmptyBag
    /\ issued = {}
    /\ removed = 0

\* POST /auth/register reaches Register.
AcceptRegister(capacity) ==
    /\ BagCardinality(inflight) < capacity
    /\ \E e \in Emails, p \in PasswordInputs, n \in Names :
         inflight' = inflight (+)
             SetToBag({NewReq("Register", "hashPassword", {e}, p, {n}, {})})
    /\ UNCHANGED <<users, nextId, issued, removed>>

NewRegister == AcceptRegister(MaxInFlight)

\* POST /auth/login reaches Login.
AcceptLogin(capacity) ==
    /\ BagCardinality(inflight) < capacity
    /\ \E e \in Emails, p \in PasswordInputs :
         inflight' = inflight (+)
             SetToBag({NewReq("Login", "findOne", {e}, p, {}, {})})
    /\ UNCHANGED <<users, nextId, issued, removed>>

NewLogin == AcceptLogin(MaxInFlight)

\* POST /posts reaches stripToken, the first function of the route.
AcceptProtected(capacity) ==
    /\ BagCardinality(inflight) < capacity
    /\ \E h \in HeaderInputs :
         inflight' = inflight (+)
             SetToBag({NewReq("Protected", "stripToken", {}, {}, {}, h)})
    /\ UNCHANGED <<users, nextId, issued, removed>>

NewProtected == AcceptProtected(MaxInFlight)

DoStripToken ==
    \E r \in BagToSet(inflight) :
        /\ r.pc = "stripToken"
        /\ inflight' = Replace(r, stripToken(r))
        /\ UNCHANGED <<users, nextId, issued, removed>>

DoVerifyToken ==
    \E r \in BagToSet(inflight) :
        /\ r.pc = "verifyToken"
        /\ inflight' = Replace(r, verifyToken(r))
        /\ UNCHANGED <<users, nextId, issued, removed>>

DoRegisterHash ==
    \E r \in BagToSet(inflight), salt \in Salts :
        /\ r.pc = "hashPassword"
        /\ inflight' = Replace(r, RegisterHash(r, salt))
        /\ UNCHANGED <<users, nextId, issued, removed>>

DoRegisterCreate ==
    \E r \in BagToSet(inflight) :
        /\ r.pc = "create"
        /\ LET created == UserCreate(users, nextId, RegisterFields(r))
           IN  /\ users' = created.table
               /\ nextId' = IF created.rejected THEN nextId ELSE nextId + 1
               /\ inflight' = Replace(r, RegisterCreate(r, created))
        /\ UNCHANGED <<issued, removed>>

DoLoginFind ==
    \E r \in BagToSet(inflight) :
        /\ r.pc = "findOne"
        /\ inflight' = Replace(r, LoginFind(r, users))
        /\ UNCHANGED <<users, nextId, issued, removed>>

DoLoginRespond ==
    \E r \in BagToSet(inflight) :
        /\ r.pc = "compare"
        /\ inflight' = Replace(r, LoginRespond(r))
        /\ issued' = issued \cup TokensOf(LoginRespond(r).res)
        /\ UNCHANGED <<users, nextId, removed>>

\* The connection of a finished request is closed.
Retire ==
    \E r \in BagToSet(inflight) :
        /\ r.pc \in Terminal
        /\ inflight' = inflight (-) SetToBag({r})
        /\ UNCHANGED <<users, nextId, issued, removed>>

Next ==
    \/ NewRegister
    \/ NewLogin
    \/ NewProtected
    \/ DoStripToken
    \/ DoVerifyToken
    \/ DoRegisterHash
    \/ DoRegisterCreate
    \/ DoLoginFind
    \/ DoLoginRespond
    \/ Retire

Spec == Init /\ [][Next]_vars

\* A row of the users table is removed outside the application.
RemoveUser ==
    /\ removed < MaxRemovals
    /\ \E u \in users : users' = users \ {u}
    /\ removed' = removed + 1
    /\ UNCHANGED <<nextId, inflight, issued>>

NextRemoval ==
    \/ AcceptRegister(MaxInFlightRemoval)
    \/ AcceptLogin(MaxInFlightRemoval)
    \/ AcceptProtected(MaxInFlightRemoval)
    \/ DoStripToken
    \/ DoVerifyToken
    \/ DoRegisterHash
    \/ DoRegisterCreate
    \/ DoLoginFind
    \/ DoLoginRespond
    \/ Retire
    \/ RemoveUser

SpecRemoval == Init /\ [][NextRemoval]_vars

(***************************** properties ***********************************)

Reqs == BagToSet(inflight)

ProtectedReqs == {r \in Reqs : r.kind = "Protected"}

LoginReqs == {r \in Reqs : r.kind = "Login"}

RegisterReqs == {r \in Reqs : r.kind = "Register"}

HeaderOf(r) == CHOOSE h \in r.header : TRUE

\* tok is what stands in h between its first blank and the next one (or
\* the end of h).
IsSecondField(h, tok) ==
    \E i \in 1..Len(h) :
        /\ h[i] = Sp
        /\ \A j \in 1..(i - 1) : h[j] # Sp
        /\ \E m \in i..Len(h) :
             /\ tok = SubSeq(h, i + 1, m)
             /\ \A j \in (i + 1)..m : h[j] # Sp
             /\ m = Len(h) \/ h[m + 1] = Sp

\* The header has no blank, or nothing between its first blank and the next.
Malformed(h) == (\A i \in 1..Len(h) : h[i] # Sp) \/ IsSecondField(h, <<>>)

\* tok is a JWT signed with the application's secret over the payload it
\* carries, and that payload passes if (payload).
ValidlySigned(tok) ==
    /\ Len(tok) = 1
    /\ tok[1].ch = "jwt"
    /\ tok[1].t.sig.key = APP_SECRET
    /\ tok[1].t.sig.over = tok[1].t.payload
    /\ tok[1].t.payload # Falsy

Status(r, code) == \E x \in r.res : x.status = code

\* C1: the downstream handler of a protected route is reached only by a
\* request whose Authorization header held a non-empty second field, which
\* stripToken stored in res.locals.token and which is a token validly signed
\* with the application's secret; both middleware called next and nothing
\* was sent.
C1_HandlerOnlyAfterVerifiedToken ==
    \A r \in Reqs :
        r.pc = "handler" =>
            /\ r.kind = "Protected"
            /\ r.header # {}
            /\ \E tok \in r.token :
                 /\ Len(tok) > 0
                 /\ IsSecondField(HeaderOf(r), tok)
                 /\ ValidlySigned(tok)
            /\ r.res = {}
            /\ r.log = <<Ran("stripToken", TRUE, FALSE),
                         Ran("verifyToken", TRUE, FALSE)>>

C1_Witness ==
    \E r \in ProtectedReqs :
        r.pc = "handler" /\ r.token # {} /\ r.token \subseteq issued

\* C2: a protected request without an Authorization header is answered by
\* stripToken itself with 401 { status: "Error", msg: "Unauthorized" }; no
\* error escapes, next is not called and res.locals.token stays unset.
C2_MissingHeaderRejected ==
    \A r \in ProtectedReqs :
        (r.header = {} /\ r.pc # "stripToken") =>
            /\ r.pc = "responded"
            /\ r.res = {Unauthorized}
            /\ r.err = {}
            /\ r.token = {}
            /\ r.log = <<Ran("stripToken", FALSE, TRUE)>>

C2_Witness ==
    \E r \in ProtectedReqs : r.header = {} /\ r.pc = "responded"

\* C3: a protected request whose Authorization header is present but
\* malformed (no blank, empty, or nothing after the blank) is answered by
\* stripToken with 401 { status: "Error", msg: "Unauthorized" } and next is
\* not called.
C3_MalformedHeaderRejected ==
    \A r \in ProtectedReqs :
        (r.header # {} /\ r.pc # "stripToken" /\ Malformed(HeaderOf(r))) =>
            /\ r.pc = "responded"
            /\ r.res = {Unauthorized}
            /\ r.log = <<Ran("stripToken", FALSE, TRUE)>>

\* C4: whenever verifyToken has run on a token that is not validly signed
\* (jwt.verify throws) or whose payload is falsy, the request ends with the
\* one response 401 { status: "Error", msg: "Unauthorized" } and next was not
\* called, whatever the cause.
C4_VerificationFailureUniform ==
    \A r \in ProtectedReqs :
        (Len(r.log) = 2 /\ \A tok \in r.token : ~ValidlySigned(tok)) =>
            /\ r.pc = "responded"
            /\ r.res = {Unauthorized}
            /\ r.err = {}
            /\ r.log[2] = Ran("verifyToken", FALSE, TRUE)

C4_Witness ==
    \E r1, r2 \in ProtectedReqs :
        /\ Len(r1.log) = 2 /\ r1.pc = "responded"
        /\ Len(r2.log) = 2 /\ r2.pc = "responded"
        /\ r1.token = {jwtSign(Falsy, APP_SECRET)}
        /\ r2.token \subseteq {Tamper(t) : t \in issued}
        /\ r2.token # {}
        /\ r1.res = r2.res

NoRecord(r) == r.user = {}

WrongPassword(r) ==
    \E u \in r.user, p \in r.password : u.passwordDigest.hash.data # p

\* C5: a Login that finds no row and a Login that finds a row whose digest
\* was computed from another password get the identical response 401
\* { status: "Error", msg: "Unauthorized" } and no token; a response carries
\* a token only if a row was found and the password is the one its digest
\* was computed from.
C5_LoginFailuresIndistinguishable ==
    /\ \A r \in LoginReqs :
         (r.pc \in Terminal /\ (NoRecord(r) \/ WrongPassword(r))) =>
             r.pc = "responded" /\ r.res = {Unauthorized}
    /\ \A r1, r2 \in LoginReqs :
         (r1.pc \in Terminal /\ r2.pc \in Terminal
              /\ NoRecord(r1) /\ WrongPassword(r2)) => r1.res = r2.res
    /\ \A r \in LoginReqs :
         TokensOf(r.res) # {} =>
             \E u \in r.user, p \in r.password :
                 u.passwordDigest.hash.data = p

C5_Witness ==
    \E r1, r2 \in LoginReqs :
        /\ r1.pc = "responded" /\ NoRecord(r1)
        /\ r2.pc = "responded" /\ WrongPassword(r2)

\* C6: a successful Login responds { user: payload, token } where payload is
\* exactly the id and email of the row found and token is that payload
\* signed with the application's secret; no issued token's payload has any
\* field but id and email.
C6_LoginResponseAndPayload ==
    /\ \A r \in LoginReqs :
         Status(r, 200) =>
             \E u \in r.user :
                 LET payload == [id |-> u.id, email |-> u.email]
                     token == <<Jwt([payload |-> payload,
                                     sig |-> [key |-> APP_SECRET,
                                              over |-> payload]])>>
                 IN  r.res = {[status |-> 200,
                               body |-> [user |-> payload, token |-> token]]}
    /\ \A t \in issued :
         /\ DOMAIN t[1].t.payload = {"id", "email"}
         /\ t[1].t.payload.id \in Nat
         /\ t[1].t.payload.email \in Emails
    /\ Emails \cap Passwords = {}

C6_Witness ==
    \E r \in LoginReqs : Status(r, 200) /\ TokensOf(r.res) \subseteq issued

\* C7: a token a Login has returned stays accepted: in every state the
\* route stripToken, verifyToken lets "Bearer <token>" through to the
\* handler, no request carrying it is ever rejected or left unanswered, and
\* this does not depend on the row of its user still being in the table.
C7_IssuedTokenAlwaysAccepted ==
    \A t \in issued :
        /\ verifyToken(stripToken(
               NewReq("Protected", "stripToken", {}, {}, {}, {Bearer(t)}))).pc
             = "handler"
        /\ \A r \in ProtectedReqs :
             r.header = {Bearer(t)} =>
                 r.pc \in {"stripToken", "verifyToken", "handler"}

C7_Witness ==
    \E r \in ProtectedReqs :
        /\ r.pc = "handler"
        /\ \E t \in issued :
             /\ r.header = {Bearer(t)}
             /\ \A u \in users : u.id # t[1].t.payload.id

\* C8: no two rows share an email; every row is the work of one successful
\* Register; a finished Register for an email either created the one row
\* with that email and sent it, or was rejected by the storage layer and
\* rethrew that error without sending anything; of the Registers for one
\* email at most one succeeded.
C8_UniqueEmailUnderRacingRegisters ==
    /\ \A u1, u2 \in users : u1.email = u2.email => u1 = u2
    /\ nextId = Cardinality(users) + 1
    /\ \A r \in RegisterReqs :
         (r.pc \in Terminal /\ r.password # {}) =>
             /\ Cardinality({u \in users : u.email \in r.email}) = 1
             /\ \/ /\ r.pc = "responded"
                   /\ r.err = {}
                   /\ \E x \in r.res :
                        x.status = 200 /\ x.body \in users
                                       /\ x.body.email \in r.email
                \/ /\ r.pc = "threw"
                   /\ r.res = {}
                   /\ r.err = {"SequelizeUniqueConstraintError"}
    /\ \A e \in Emails :
         LET won == {r \in RegisterReqs : r.pc = "responded" /\ e \in r.email}
         IN  Cardinality(won) <= 1 /\ \A r \in won : CopiesIn(r, inflight) = 1

C8_Witness ==
    \E r1, r2 \in RegisterReqs :
        /\ r1.email = r2.email
        /\ r1.pc = "responded"
        /\ r2.pc = "threw" /\ r2.err = {"SequelizeUniqueConstraintError"}

\* C9: every stored row holds a bcrypt digest of a password, never the
\* password; a successful Register responds with the whole row it created,
\* whose email and name are the request's and whose digest was computed from
\* the request's password, and a Login with that email and password then
\* succeeds.
C9_RegisterStoresDigestAndLoginSucceeds ==
    /\ \A u \in users :
         \E p \in Passwords, s \in Salts :
             u.passwordDigest =
                 [alg |-> "2b", rounds |-> SALT_ROUNDS, salt |-> s,
                  hash |-> [data |-> p, salt |-> s, rounds |-> SALT_ROUNDS]]
    /\ \A r \in RegisterReqs :
         r.pc = "responded" =>
             \E x \in r.res :
                 /\ x.status = 200
                 /\ DOMAIN x.body = {"id", "email", "name", "passwordDigest"}
                 /\ x.body.email \in r.email
                 /\ x.body.name \in r.name
                 /\ x.body.passwordDigest.hash.data \in r.password
                 /\ {u \in users : u.email \in r.email} = {x.body}
                 /\ LET q == LoginRespond(LoginFind(
                                 NewReq("Login", "findOne", r.email,
                                        r.password, {}, {}), users))
                    IN  \E y \in q.res :
                            /\ y.status = 200
                            /\ y.body.user = [id |-> x.body.id,
                                              email |-> x.body.email]
    /\ \A r1 \in RegisterReqs, r2 \in LoginReqs :
         (r1.pc = "responded" /\ r2.pc \in Terminal /\ r2.user # {}
              /\ r1.email = r2.email /\ r1.password = r2.password) =>
             Status(r2, 200)

C9_Witness ==
    \E r1 \in RegisterReqs, r2 \in LoginReqs :
        /\ r1.pc = "responded"
        /\ r1.email = r2.email /\ r1.password = r2.password
        /\ Status(r2, 200)

\* C10: every invocation of stripToken or verifyToken either called next or
\* sent a response, never neither and never both, so that no request of the
\* protected route is left without an outcome.
C10_EveryInvocationNextOrSend ==
    \A r \in ProtectedReqs :
        /\ \A i \in 1..Len(r.log) : r.log[i].next # r.log[i].sent
        /\ r.pc # "stalled"

=============================================================================
